---------------------------- MODULE Spec2Model ----------------------------
(***************************************************************************)
(* A model of src/src/react-agent/graph.py: the ReAct agent graph          *)
(* (call_model, tools, human_review, route_model_output) and the           *)
(* time-travel runner (CHECKPOINTS, serialize_state, deserialize_state,    *)
(* run_agent_with_time_travel, list_checkpoints).                          *)
(*                                                                         *)
(* Text is a TLA+ string; a message is a record                            *)
(*   [role, content, tool_calls, id];                                      *)
(* a State is a record [messages, is_last_step, extra].                    *)
(***************************************************************************)
EXTENDS Integers, Sequences, FiniteSets, TLC

(***************************************************************************)
(* Python values that TLA+ strings cannot hold.                            *)
(***************************************************************************)
\* Python's None as a message content or id (no real text equals it).
None == "<None>"

\* The content of the budget-exhaustion message (graph.py line 37).
FallbackContent ==
    "Sorry, I could not find an answer to your question in the specified number of steps."

(***************************************************************************)
(* str.lower() and the `in` operator on text                               *)
(***************************************************************************)
UpperLetters == "ABCDEFGHIJKLMNOPQRSTUVWXYZ"
LowerLetters == "abcdefghijklmnopqrstuvwxyz"

\* One character lowercased: an ASCII capital maps to its small letter, any
\* other character to itself.
LowerChar(c) ==
    IF \E i \in 1..26 : SubSeq(UpperLetters, i, i) = c
    THEN LET i == CHOOSE i \in 1..26 : SubSeq(UpperLetters, i, i) = c
         IN  SubSeq(LowerLetters, i, i)
    ELSE c

RECURSIVE StrLower(_)
\* s.lower(): every character lowercased, in order.
StrLower(s) ==
    IF Len(s) = 0 THEN ""
    ELSE LowerChar(SubSeq(s, 1, 1)) \o StrLower(SubSeq(s, 2, Len(s)))

\* Whether text starts with keyword.
StartsWith(text, keyword) ==
    /\ Len(keyword) <= Len(text)
    /\ SubSeq(text, 1, Len(keyword)) = keyword

RECURSIVE StrIn(_, _)
\* keyword in text: a left-to-right scan for the first match.
StrIn(keyword, text) ==
    IF Len(keyword) > Len(text) THEN FALSE
    ELSE IF StartsWith(text, keyword) THEN TRUE
    ELSE StrIn(keyword, SubSeq(text, 2, Len(text)))

(***************************************************************************)
(* contains_sensitive_info (graph.py lines 50-53)                          *)
(***************************************************************************)
sensitive_keywords == <<"suicide", "kill myself", "password", "credentials">>

\* (message.content or ""): None and "" are both falsy.
ContentOrEmpty(message) ==
    IF message.content = None \/ message.content = "" THEN "" ELSE message.content

\* Line 51 without the .lower() call.
LoweredContentNoLower(message) == ContentOrEmpty(message)

\* content = (message.content or "").lower()
LoweredContent(message) == StrLower(ContentOrEmpty(message))

contains_sensitive_info(message) ==
    LET content == LoweredContent(message)
    IN  \E k \in 1..Len(sensitive_keywords) : StrIn(sensitive_keywords[k], content)


(***************************************************************************)
(* Messages and State                                                      *)
(***************************************************************************)
AIMessage(id, content, tool_calls) ==
    [role |-> "assistant", content |-> content, tool_calls |-> tool_calls, id |-> id]

HumanMessage(content) ==
    [role |-> "user", content |-> content, tool_calls |-> <<>>, id |-> None]

ToolMessage(content) ==
    [role |-> "tool", content |-> content, tool_calls |-> <<>>, id |-> None]

\* isinstance(m, AIMessage)
IsAIMessage(m) == m.role = "assistant"

\* A value of an extra State field: a tagged Python value, or no such field.
Absent == [t |-> "absent"]
PStr(s) == [t |-> "str", v |-> s]
PBool(b) == [t |-> "bool", v |-> b]
PNone == [t |-> "none"]
PList(seq) == [t |-> "list", v |-> seq]
PTuple(seq) == [t |-> "tuple", v |-> seq]
PDict(f) == [t |-> "dict", v |-> f]
\* A list of message objects.
PMessages(seq) == [t |-> "messages", v |-> seq]

\* The names of the extra fields the model lets a caller set on a State.
ExtraKeys == {"tags"}

NoExtra == [k \in ExtraKeys |-> Absent]

\* State(input=initial_input): the input's messages, the budget flag unset.
NewState(initial_input) ==
    [messages |-> initial_input.messages, is_last_step |-> FALSE, extra |-> NoExtra]

Last(seq) == seq[Len(seq)]

(***************************************************************************)
(* The nodes (graph.py lines 17-47, 77)                                    *)
(***************************************************************************)
\* Line 32 with `or` in place of `and`.
BudgetExhaustedOr(state, response) ==
    state.is_last_step \/ response.tool_calls # <<>>

\* Line 32: state.is_last_step and response.tool_calls
BudgetExhausted(state, response) ==
    state.is_last_step /\ response.tool_calls # <<>>

\* call_model, given the response the model collaborator returned.
call_model(state, response) ==
    IF BudgetExhausted(state, response)
    THEN [messages |-> << AIMessage(response.id, FallbackContent, <<>>) >>]
    ELSE [messages |-> << response >>]

human_review(state) ==
    LET last_message == Last(state.messages)
    IN  [messages |-> << last_message >>]

\* ToolNode(TOOLS): one tool message per tool call of the last message, given
\* the result text the tool collaborator returned for each call.
tools(state, results) ==
    LET calls == Last(state.messages).tool_calls
    IN  [messages |-> [i \in 1..Len(calls) |-> ToolMessage(results[i])]]

(***************************************************************************)
(* route_model_output (graph.py lines 56-69)                               *)
(***************************************************************************)
Raise(kind) == [raised |-> kind, value |-> None]
Return(value) == [raised |-> None, value |-> value]

\* Lines 63-69 with the tool-call test ahead of the sensitive-content test.
RouteAIMessageToolsFirst(last_message) ==
    IF last_message.tool_calls # <<>> THEN Return("tools")
    ELSE IF contains_sensitive_info(last_message) THEN Return("human_review")
    ELSE Return("__end__")

\* Lines 63-69: the route of an assistant message.
RouteAIMessage(last_message) ==
    IF contains_sensitive_info(last_message) THEN Return("human_review")
    ELSE IF last_message.tool_calls # <<>> THEN Return("tools")
    ELSE Return("__end__")

\* Lines 58-61 without the isinstance test.
RouteNoTypeCheck(state) ==
    IF Len(state.messages) = 0 THEN Raise("IndexError")
    ELSE RouteAIMessage(Last(state.messages))

route_model_output(state) ==
    IF Len(state.messages) = 0 THEN Raise("IndexError")
    ELSE LET last_message == Last(state.messages)
         IN  IF ~IsAIMessage(last_message) THEN Raise("ValueError")
             ELSE RouteAIMessage(last_message)

\* The State as route_model_output leaves it: the function assigns nothing.
StateAfterRoute(state) == state

(***************************************************************************)
(* Serialization (graph.py lines 98-113)                                   *)
(*                                                                         *)
(* A JSON document is kept as its syntax tree: json.dumps writes the text  *)
(* of exactly one tree and json.loads reads that tree back, so what the    *)
(* pair loses is lost between the Python value and the tree.               *)
(***************************************************************************)
JStr(s) == [j |-> "string", v |-> s]
JBool(b) == [j |-> "bool", v |-> b]
JNull == [j |-> "null"]
JArr(seq) == [j |-> "array", v |-> seq]
JObj(f) == [j |-> "object", v |-> f]

\* None or a text, as a Python value.
PText(x) == IF x = None THEN PNone ELSE PStr(x)
\* and back.
TextOf(p) == IF p.t = "none" THEN None ELSE p.v

ToolCallToDict(c) == PDict([name |-> PStr(c.name), args |-> PStr(c.args)])
ToolCallFromDict(d) == [name |-> d.v.name.v, args |-> d.v.args.v]

MessageToDict(m) ==
    PDict([role |-> PStr(m.role),
           content |-> PText(m.content),
           tool_calls |-> PList([i \in 1..Len(m.tool_calls) |-> ToolCallToDict(m.tool_calls[i])]),
           id |-> PText(m.id)])

MessageFromDict(d) ==
    [role |-> d.v.role.v,
     content |-> TextOf(d.v.content),
     tool_calls |-> [i \in 1..Len(d.v.tool_calls.v) |-> ToolCallFromDict(d.v.tool_calls.v[i])],
     id |-> TextOf(d.v.id)]

\* State.to_dict(): every field of the State under its name.
to_dict(state) ==
    LET present == {k \in ExtraKeys : state.extra[k] # Absent}
    IN  PDict([k \in {"messages", "is_last_step"} \cup present |->
                 IF k = "messages"
                 THEN PList([i \in 1..Len(state.messages) |-> MessageToDict(state.messages[i])])
                 ELSE IF k = "is_last_step" THEN PBool(state.is_last_step)
                 ELSE state.extra[k]])

\* State.from_dict(data): the State with the fields data names.
from_dict(data) ==
    [messages |-> [i \in 1..Len(data.v.messages.v) |-> MessageFromDict(data.v.messages.v[i])],
     is_last_step |-> data.v.is_last_step.v,
     extra |-> [k \in ExtraKeys |-> IF k \in DOMAIN data.v THEN data.v[k] ELSE Absent]]

RECURSIVE json_dumps(_)
\* json.dumps: str, bool, None, list and dict to their JSON kinds; a tuple is
\* written as an array, like a list.
json_dumps(p) ==
    CASE p.t = "str"   -> JStr(p.v)
      [] p.t = "bool"  -> JBool(p.v)
      [] p.t = "none"  -> JNull
      [] p.t = "list"  -> JArr([i \in 1..Len(p.v) |-> json_dumps(p.v[i])])
      [] p.t = "tuple" -> JArr([i \in 1..Len(p.v) |-> json_dumps(p.v[i])])
      [] p.t = "dict"  -> JObj([k \in DOMAIN p.v |-> json_dumps(p.v[k])])

RECURSIVE json_loads(_)
\* json.loads: every array is read as a list.
json_loads(d) ==
    CASE d.j = "string" -> PStr(d.v)
      [] d.j = "bool"   -> PBool(d.v)
      [] d.j = "null"   -> PNone
      [] d.j = "array"  -> PList([i \in 1..Len(d.v) |-> json_loads(d.v[i])])
      [] d.j = "object" -> PDict([k \in DOMAIN d.v |-> json_loads(d.v[k])])

serialize_state(state) == json_dumps(to_dict(state))

deserialize_state(serialized) == from_dict(json_loads(serialized))

(***************************************************************************)
(* CHECKPOINTS (graph.py line 95): a dict, kept as its items in insertion  *)
(* order.                                                                  *)
(***************************************************************************)
DictKeys(d) == [i \in 1..Len(d) |-> d[i].key]

DictHas(d, key) == \E i \in 1..Len(d) : d[i].key = key

\* Python's None where a serialized State is expected (no document equals it).
NoDocument == [j |-> "<None>"]

\* d.get(key): the value under key, or None.
DictGet(d, key) ==
    IF DictHas(d, key)
    THEN d[CHOOSE i \in 1..Len(d) : d[i].key = key].value
    ELSE NoDocument

\* d[key] = value: a present key keeps its place and takes the value, a new
\* key goes last.
DictSet(d, key, value) ==
    IF DictHas(d, key)
    THEN [i \in 1..Len(d) |-> IF d[i].key = key THEN [key |-> key, value |-> value] ELSE d[i]]
    ELSE Append(d, [key |-> key, value |-> value])

\* An id that does not depend on the size of the store.
CheckpointIdFixed(store) == "ckpt_0"

\* Line 145 with the ids counted from one.
CheckpointIdFromOne(store) == "ckpt_" \o ToString(Len(store) + 1)

\* f"ckpt_{len(CHECKPOINTS)}" (lines 145 and 161)
CheckpointId(store) == "ckpt_" \o ToString(Len(store))

\* Lines 145-146 and 161-162: the store after saving state.
SaveState(store, state) == DictSet(store, CheckpointId(store), serialize_state(state))

\* list(CHECKPOINTS.keys()) of a store with its items reversed.
ListKeysReversed(store) == [i \in 1..Len(store) |-> store[Len(store) + 1 - i].key]

\* list_checkpoints (lines 168-172)
ListKeys(store) == DictKeys(store)

(***************************************************************************)
(* Bounds and the inputs the environment draws                             *)
(***************************************************************************)
\* The saves after which no further save is taken.
MaxCheckpoints == 4

\* The calls of run_agent_with_time_travel after which no further call is made.
MaxCalls == 2

\* The sessions that may call run_agent_with_time_travel on the one store, and
\* the one that makes its calls one after the other.
Sessions == {"a", "b"}
Sequential == {"a"}

SearchCall == [name |-> "search", args |-> "q"]

\* What the model collaborator may answer.
Responses ==
    { AIMessage("r1", "ok", <<>>),
      AIMessage("r2", "look", << SearchCall, SearchCall >>),
      AIMessage("r3", "your PASSWORD", <<>>),
      AIMessage("r4", "Kill Myself", << SearchCall >>) }

\* What the tool collaborator may answer to one call.
ToolResults == {"found", "the password is x"}

InitialInputs == { [messages |-> << HumanMessage("hi") >>] }

\* The ids a caller may ask to resume from: every id the store can hold, and
\* two it never holds.
ResumeIds ==
    {"ckpt_" \o ToString(n) : n \in 0..MaxCheckpoints} \cup {"bogus"}

\* The modifications a caller may pass: None, or a dict given as its items.
Modifications ==
    { <<>>,
      << [key |-> "is_last_step", value |-> PBool(TRUE)] >>,
      << [key |-> "tags", value |-> PTuple(<< PStr("a") >>)] >>,
      << [key |-> "messages",
          value |-> PMessages(<< HumanMessage("hi"), ToolMessage("found") >>)] >> }

(***************************************************************************)
(* The program state                                                       *)
(***************************************************************************)
VARIABLES
    CHECKPOINTS,  \* the module's dict (line 95)
    pc,           \* per session: "idle", or the place in the runner's loop
    state,        \* per session: the runner's local State
    position,     \* per session: the node the graph executes next
    result,       \* per session: how the last call ended
    savedIds,     \* per session: the ids this call saved under, in order
    execLog,      \* per session: the State each step of this call ran on
    modelCalls,   \* per session: model invocations of this call
    allTools,     \* per session: every model answer of this call asked for a tool
    request,      \* per session: what this call was asked to do
    nodeLog,      \* per session: the node each step of this call executed
    routerLog,    \* per session: each invocation of route_model_output in this call
    saveLog,      \* the ids of all saves, in order
    calls,        \* the calls of run_agent_with_time_travel made so far
    listed,       \* what list_checkpoints last returned
    pin,          \* the argument of a direct call of one function
    pfn,          \* the function called directly
    pret,         \* what it returned or raised
    pafter        \* its State argument after the call

runVars == <<pc, state, position, result, savedIds, execLog, modelCalls, allTools,
            request, nodeLog, routerLog>>
storeVars == <<CHECKPOINTS, saveLog, listed>>
pureVars == <<pin, pfn, pret, pafter>>
vars == <<CHECKPOINTS, pc, state, position, result, savedIds, execLog, modelCalls,
          allTools, request, nodeLog, routerLog, saveLog, calls, listed, pin, pfn, pret,
          pafter>>

EmptyState == [messages |-> <<>>, is_last_step |-> FALSE, extra |-> NoExtra]

NoResult == [kind |-> "none", state |-> EmptyState]

\* No call yet, or one that failed before its loop.
NoRequest == [kind |-> "none", id |-> None, mods |-> <<>>, doc |-> NoDocument, size |-> 0]

NoInput == [state |-> EmptyState, response |-> AIMessage(None, None, <<>>)]

RunnerInit ==
    /\ CHECKPOINTS = <<>>
    /\ pc = [s \in Sessions |-> "idle"]
    /\ state = [s \in Sessions |-> EmptyState]
    /\ position = [s \in Sessions |-> "__start__"]
    /\ result = [s \in Sessions |-> NoResult]
    /\ savedIds = [s \in Sessions |-> <<>>]
    /\ execLog = [s \in Sessions |-> <<>>]
    /\ modelCalls = [s \in Sessions |-> 0]
    /\ allTools = [s \in Sessions |-> TRUE]
    /\ request = [s \in Sessions |-> NoRequest]
    /\ nodeLog = [s \in Sessions |-> <<>>]
    /\ routerLog = [s \in Sessions |-> <<>>]
    /\ saveLog = <<>>
    /\ calls = 0
    /\ listed = <<>>

Init ==
    /\ RunnerInit
    /\ pin = NoInput
    /\ pfn = "none"
    /\ pret = Return(None)
    /\ pafter = EmptyState

(***************************************************************************)
(* run_agent_with_time_travel (graph.py lines 116-165)                     *)
(***************************************************************************)
\* setattr(state, key, value)
SetAttr(st, key, value) ==
    IF key = "messages" THEN [st EXCEPT !.messages = value.v]
    ELSE IF key = "is_last_step" THEN [st EXCEPT !.is_last_step = value.v]
    ELSE [st EXCEPT !.extra[key] = value]

\* Lines 134-136 left out: the loaded State as it is.
ApplyModificationsSkipped(st, mods) == st

RECURSIVE ApplyModifications(_, _)
\* Lines 134-136: each item of modifications set on the State, in order.
ApplyModifications(st, mods) ==
    IF mods = <<>> THEN st
    ELSE ApplyModifications(SetAttr(st, mods[1].key, mods[1].value), Tail(mods))

\* Lines 127-129 without the test for a missing checkpoint: the run goes on
\* from an empty State.
LoadCheckpointUnchecked(store, id) ==
    IF DictHas(store, id)
    THEN Return(deserialize_state(DictGet(store, id)))
    ELSE Return(EmptyState)

\* Lines 127-131: the State under id, or ValueError.
LoadCheckpoint(store, id) ==
    IF DictGet(store, id) = NoDocument
    THEN Raise("ValueError")
    ELSE Return(deserialize_state(DictGet(store, id)))

\* Line 143 as `while not graph.is_terminal(state)`: a State that is already
\* at the end skips the loop.
LoopEntryTested(st) ==
    IF /\ st.messages # <<>>
       /\ IsAIMessage(Last(st.messages))
       /\ route_model_output(st) = Return("__end__")
    THEN "final"
    ELSE "save"

\* Line 143, `while True`: the loop is entered whatever the State is, and its
\* first statement is the save.
LoopEntry(st) == "save"

\* The call begins: its logs are empty.
BeginCall(s) ==
    /\ calls < MaxCalls
    /\ calls' = calls + 1
    /\ savedIds' = [savedIds EXCEPT ![s] = <<>>]
    /\ execLog' = [execLog EXCEPT ![s] = <<>>]
    /\ modelCalls' = [modelCalls EXCEPT ![s] = 0]
    /\ allTools' = [allTools EXCEPT ![s] = TRUE]
    /\ nodeLog' = [nodeLog EXCEPT ![s] = <<>>]
    /\ routerLog' = [routerLog EXCEPT ![s] = <<>>]

\* Lines 138-140: a call with no resume_checkpoint_id.
RunFresh(s, initial_input) ==
    /\ pc[s] = "idle"
    /\ state' = [state EXCEPT ![s] = NewState(initial_input)]
    /\ position' = [position EXCEPT ![s] = "call_model"]
    /\ pc' = [pc EXCEPT ![s] = LoopEntry(NewState(initial_input))]
    /\ result' = [result EXCEPT ![s] = NoResult]
    /\ request' = [request EXCEPT ![s] = [kind |-> "fresh", id |-> None, mods |-> <<>>,
                                          doc |-> NoDocument, size |-> Len(CHECKPOINTS)]]
    /\ BeginCall(s)
    /\ UNCHANGED <<storeVars, pureVars>>

\* Lines 125-136: a call with a resume_checkpoint_id.
RunResume(s, resume_checkpoint_id, modifications) ==
    /\ pc[s] = "idle"
    /\ LET loaded == LoadCheckpoint(CHECKPOINTS, resume_checkpoint_id)
       IN  IF loaded.raised # None
           THEN /\ result' = [result EXCEPT ![s] = [kind |-> loaded.raised, state |-> EmptyState]]
                /\ request' = [request EXCEPT ![s] = NoRequest]
                /\ UNCHANGED <<pc, state, position>>
           ELSE /\ state' = [state EXCEPT ![s] = ApplyModifications(loaded.value, modifications)]
                /\ position' = [position EXCEPT ![s] = "call_model"]
                /\ pc' = [pc EXCEPT ![s] =
                             LoopEntry(ApplyModifications(loaded.value, modifications))]
                /\ result' = [result EXCEPT ![s] = NoResult]
                /\ request' = [request EXCEPT ![s] =
                                  [kind |-> "resume", id |-> resume_checkpoint_id,
                                   mods |-> modifications,
                                   doc |-> DictGet(CHECKPOINTS, resume_checkpoint_id),
                                   size |-> Len(CHECKPOINTS)]]
    /\ BeginCall(s)
    /\ UNCHANGED <<storeVars, pureVars>>

\* Lines 145-146 with the id counted by the call itself, from the size the
\* store had when the call began, and not read from the store at the save.
SaveCheckpointOwnCount(s) ==
    LET id == "ckpt_" \o ToString(request[s].size + Len(savedIds[s]))
    IN  /\ pc[s] = "save"
        /\ Len(saveLog) < MaxCheckpoints
        /\ CHECKPOINTS' = DictSet(CHECKPOINTS, id, serialize_state(state[s]))
        /\ saveLog' = Append(saveLog, id)
        /\ savedIds' = [savedIds EXCEPT ![s] = Append(@, id)]
        /\ pc' = [pc EXCEPT ![s] = "exec"]
        /\ UNCHANGED <<state, position, result, execLog, modelCalls, allTools, request,
                       nodeLog, routerLog, listed, calls, pureVars>>

\* Lines 145-146: the checkpoint before a step.
SaveCheckpoint(s) ==
    /\ pc[s] = "save"
    /\ Len(CHECKPOINTS) < MaxCheckpoints
    /\ CHECKPOINTS' = SaveState(CHECKPOINTS, state[s])
    /\ saveLog' = Append(saveLog, CheckpointId(CHECKPOINTS))
    /\ savedIds' = [savedIds EXCEPT ![s] = Append(@, CheckpointId(CHECKPOINTS))]
    /\ pc' = [pc EXCEPT ![s] = "exec"]
    /\ UNCHANGED <<state, position, result, execLog, modelCalls, allTools, request, nodeLog,
                   routerLog, listed, calls, pureVars>>

\* Lines 153-154 with an assignment in place of extend.
MergeReplace(st, output) ==
    IF "messages" \in DOMAIN output
    THEN [st EXCEPT !.messages = output.messages]
    ELSE st

\* Lines 153-154 with a merge by message id: an output message takes the
\* place of the message of the transcript that has its id.
MergeById(st, output) ==
    IF "messages" \in DOMAIN output
    THEN LET replaced(m) == /\ m.id # None
                            /\ \E i \in 1..Len(output.messages) : output.messages[i].id = m.id
             kept == SelectSeq(st.messages, LAMBDA m : ~ replaced(m))
         IN  [st EXCEPT !.messages = kept \o output.messages]
    ELSE st

\* Lines 153-154: the output's messages appended to the State's.
Merge(st, output) ==
    IF "messages" \in DOMAIN output
    THEN [st EXCEPT !.messages = @ \o output.messages]
    ELSE st

\* The conditional edge of line 82 put on every node.
InvokesRouterAlways(node) == TRUE

\* Line 82: route_model_output decides the node after call_model, and after
\* no other node.
InvokesRouter(node) == node = "call_model"

\* Line 86 with the edge of human_review led back to call_model.
NextNodeReviewLoops(node, st) ==
    IF InvokesRouter(node) THEN route_model_output(st)
    ELSE Return("call_model")

\* Line 84 with the edge of tools led to the end.
NextNodeToolsEnd(node, st) ==
    IF InvokesRouter(node) THEN route_model_output(st)
    ELSE Return("__end__")

\* The node after `node`, on the merged State.
NextNode(node, st) ==
    IF InvokesRouter(node) THEN route_model_output(st)
    ELSE CASE node = "tools"        -> Return("call_model")
           [] node = "human_review" -> Return("__end__")

\* Lines 150-158: one step, with `output` what the node at the graph's position
\* returned; then the test for the terminal state.
FinishStep(s, output) ==
    LET merged == Merge(state[s], output)
        next == NextNode(position[s], merged)
    IN  /\ state' = [state EXCEPT ![s] = merged]
        /\ execLog' = [execLog EXCEPT ![s] = Append(@, state[s])]
        /\ nodeLog' = [nodeLog EXCEPT ![s] = Append(@, position[s])]
        /\ routerLog' = [routerLog EXCEPT ![s] =
                            IF InvokesRouter(position[s])
                            THEN Append(@, [last |-> Last(merged.messages), out |-> next])
                            ELSE @]
        /\ IF next.raised # None
           THEN /\ result' = [result EXCEPT ![s] = [kind |-> next.raised, state |-> EmptyState]]
                /\ pc' = [pc EXCEPT ![s] = "idle"]
                /\ position' = [position EXCEPT ![s] = "__start__"]
           ELSE /\ result' = result
                /\ position' = [position EXCEPT ![s] = next.value]
                /\ pc' = [pc EXCEPT ![s] = IF next.value = "__end__" THEN "final" ELSE "save"]
        /\ UNCHANGED <<savedIds, request, calls, storeVars, pureVars>>

\* The tool results for the calls of the last message of session s.
ResultsFor(s) ==
    [1..Len(Last(state[s].messages).tool_calls) -> ToolResults]

ExecCallModel(s, response) ==
    /\ pc[s] = "exec"
    /\ position[s] = "call_model"
    /\ modelCalls' = [modelCalls EXCEPT ![s] = @ + 1]
    /\ allTools' = [allTools EXCEPT ![s] = @ /\ response.tool_calls # <<>>]
    /\ FinishStep(s, call_model(state[s], response))

ExecTools(s) ==
    /\ pc[s] = "exec"
    /\ position[s] = "tools"
    /\ UNCHANGED <<modelCalls, allTools>>
    /\ \E results \in ResultsFor(s) : FinishStep(s, tools(state[s], results))

ExecHumanReview(s) ==
    /\ pc[s] = "exec"
    /\ position[s] = "human_review"
    /\ UNCHANGED <<modelCalls, allTools>>
    /\ FinishStep(s, human_review(state[s]))

\* Line 150 inside try/finally: the collaborator's error propagates, but the
\* final checkpoint is saved on the way out.
ExecFailsFinally(s) ==
    /\ pc[s] = "exec"
    /\ position[s] \in {"call_model", "tools"}
    /\ Len(CHECKPOINTS) < MaxCheckpoints
    /\ CHECKPOINTS' = SaveState(CHECKPOINTS, state[s])
    /\ saveLog' = Append(saveLog, CheckpointId(CHECKPOINTS))
    /\ savedIds' = [savedIds EXCEPT ![s] = Append(@, CheckpointId(CHECKPOINTS))]
    /\ result' = [result EXCEPT ![s] = [kind |-> "CollaboratorError", state |-> state[s]]]
    /\ state' = [state EXCEPT ![s] = EmptyState]
    /\ position' = [position EXCEPT ![s] = "__start__"]
    /\ pc' = [pc EXCEPT ![s] = "idle"]
    /\ UNCHANGED <<execLog, modelCalls, allTools, request, nodeLog, routerLog, listed,
                   calls, pureVars>>

\* Line 150 when the model or tool collaborator raises: nothing catches the
\* error, so the call ends with it; the State it held is what the step began on.
ExecFails(s) ==
    /\ pc[s] = "exec"
    /\ position[s] \in {"call_model", "tools"}
    /\ result' = [result EXCEPT ![s] = [kind |-> "CollaboratorError", state |-> state[s]]]
    /\ state' = [state EXCEPT ![s] = EmptyState]
    /\ position' = [position EXCEPT ![s] = "__start__"]
    /\ pc' = [pc EXCEPT ![s] = "idle"]
    /\ UNCHANGED <<savedIds, execLog, modelCalls, allTools, request, nodeLog, routerLog,
                   calls, storeVars, pureVars>>

\* Lines 161-165 without the final checkpoint.
FinalSaveSkipped(s) ==
    /\ pc[s] = "final"
    /\ result' = [result EXCEPT ![s] = [kind |-> "returned", state |-> state[s]]]
    /\ state' = [state EXCEPT ![s] = EmptyState]
    /\ position' = [position EXCEPT ![s] = "__start__"]
    /\ pc' = [pc EXCEPT ![s] = "idle"]
    /\ UNCHANGED <<savedIds, execLog, modelCalls, allTools, request, nodeLog, routerLog,
                   calls, storeVars, pureVars>>

\* Lines 161-165: the final checkpoint, and the return.
FinalSave(s) ==
    /\ pc[s] = "final"
    /\ Len(CHECKPOINTS) < MaxCheckpoints
    /\ CHECKPOINTS' = SaveState(CHECKPOINTS, state[s])
    /\ saveLog' = Append(saveLog, CheckpointId(CHECKPOINTS))
    /\ savedIds' = [savedIds EXCEPT ![s] = Append(@, CheckpointId(CHECKPOINTS))]
    /\ result' = [result EXCEPT ![s] = [kind |-> "returned", state |-> state[s]]]
    /\ state' = [state EXCEPT ![s] = EmptyState]
    /\ position' = [position EXCEPT ![s] = "__start__"]
    /\ pc' = [pc EXCEPT ![s] = "idle"]
    /\ UNCHANGED <<execLog, modelCalls, allTools, request, nodeLog, routerLog, listed,
                   calls, pureVars>>

\* The store as list_checkpoints leaves it: the function assigns nothing.
StoreAfterList(store) == store

\* list_checkpoints (lines 168-172), called between two steps.
ListCheckpoints ==
    /\ listed' = ListKeys(CHECKPOINTS)
    /\ CHECKPOINTS' = StoreAfterList(CHECKPOINTS)
    /\ UNCHANGED <<saveLog, calls, runVars, pureVars>>

Next ==
    \/ \E s \in Sequential, i \in InitialInputs : RunFresh(s, i)
    \/ \E s \in Sequential, id \in ResumeIds, m \in Modifications : RunResume(s, id, m)
    \/ \E s \in Sequential : SaveCheckpoint(s)
    \/ \E s \in Sequential, r \in Responses : ExecCallModel(s, r)
    \/ \E s \in Sequential : ExecTools(s)
    \/ \E s \in Sequential : ExecHumanReview(s)
    \/ \E s \in Sequential : ExecFails(s)
    \/ \E s \in Sequential : FinalSave(s)
    \/ ListCheckpoints

Spec == Init /\ [][Next]_vars

\* What the callers and the model draw from when two sessions run: resumes
\* from the first two checkpoints with no modifications, and one answer of
\* the model for each way the router can go.
ConcurrentResumeIds == {"ckpt_0", "ckpt_1"}
ConcurrentResponses == {r \in Responses : r.id \in {"r1", "r2", "r3"}}

\* Two sessions on the one store: each action is a stretch of a call with no
\* await in it, and the calls take turns between the actions, which is at
\* least as often as at the awaits of line 150.
NextConcurrent ==
    \/ \E s \in Sessions, i \in InitialInputs : RunFresh(s, i)
    \/ \E s \in Sessions, id \in ConcurrentResumeIds : RunResume(s, id, <<>>)
    \/ \E s \in Sessions : SaveCheckpoint(s)
    \/ \E s \in Sessions, r \in ConcurrentResponses : ExecCallModel(s, r)
    \/ \E s \in Sessions : ExecTools(s)
    \/ \E s \in Sessions : ExecHumanReview(s)
    \/ \E s \in Sessions : ExecFails(s)
    \/ \E s \in Sessions : FinalSave(s)

SpecConcurrent == Init /\ [][NextConcurrent]_vars

(***************************************************************************)
(* Direct calls of the functions of the module, on drawn arguments         *)
(***************************************************************************)
ContentPrefixes == {"", "my "}
ContentCores ==
    { "", "ok", "password", "PASSWORD", "PassWord", "passwor", "pass word",
      "suicide", "Suicide", "suicid", "kill myself", "KILL MYSELF", "kill  myself",
      "killmyself", "credentials", "CREDENTIALS", "credential" }
ContentSuffixes == {"", "s!"}

\* The contents a drawn message may have: with and without a keyword, in any
\* letter case, with near misses, empty and missing.
Contents ==
    {p \o c \o x : p \in ContentPrefixes, c \in ContentCores, x \in ContentSuffixes}
        \cup {None}

Roles == {"user", "assistant", "tool"}

ToolCallLists == { <<>>, << SearchCall >> }

DrawnMessages ==
    { [role |-> r, content |-> c, tool_calls |-> t, id |-> "m1"] :
        r \in Roles, c \in Contents, t \in ToolCallLists }

\* States that end with a drawn message, and the State with no message.
RouteInputs ==
    { [state |-> [messages |-> << HumanMessage("hi"), m >>, is_last_step |-> FALSE,
                  extra |-> NoExtra],
       response |-> AIMessage("r1", "ok", <<>>)] : m \in DrawnMessages }
        \cup { [state |-> EmptyState, response |-> AIMessage("r1", "ok", <<>>)] }

\* States with and without the budget flag, and every answer of the model.
ModelInputs ==
    { [state |-> [messages |-> << HumanMessage("hi") >>, is_last_step |-> f,
                  extra |-> NoExtra],
       response |-> r] : f \in BOOLEAN, r \in Responses }

ExtraValues == { Absent, PStr("x"), PList(<< PStr("a") >>), PTuple(<< PStr("a") >>) }

MessageLists ==
    { <<>>,
      << HumanMessage("hi") >>,
      << HumanMessage("hi"), AIMessage("r2", "look", << SearchCall >>), ToolMessage("found") >>,
      << HumanMessage("hi"), AIMessage(None, None, <<>>) >> }

\* States of every shape the runner can hold.
StateInputs ==
    { [state |-> [messages |-> ms, is_last_step |-> f, extra |-> [k \in ExtraKeys |-> e]],
       response |-> AIMessage("r1", "ok", <<>>)] :
        ms \in MessageLists, f \in BOOLEAN, e \in ExtraValues }

PureInputs == RouteInputs \cup ModelInputs \cup StateInputs

PureInit ==
    /\ RunnerInit
    /\ pin \in PureInputs
    /\ pfn = "none"
    /\ pret = Return(None)
    /\ pafter = EmptyState

PureCall(fn, ret, after) ==
    /\ pfn = "none"
    /\ pfn' = fn
    /\ pret' = ret
    /\ pafter' = after
    /\ UNCHANGED <<pin, calls, runVars, storeVars>>

CallContainsSensitive ==
    /\ Len(pin.state.messages) > 0
    /\ PureCall("contains_sensitive_info",
                Return(contains_sensitive_info(Last(pin.state.messages))),
                pin.state)

CallRoute ==
    PureCall("route_model_output", route_model_output(pin.state), StateAfterRoute(pin.state))

CallModel ==
    PureCall("call_model", Return(call_model(pin.state, pin.response)), pin.state)

CallRoundTrip ==
    PureCall("round_trip", Return(deserialize_state(serialize_state(pin.state))), pin.state)

PureNext ==
    \/ CallContainsSensitive
    \/ CallRoute
    \/ CallModel
    \/ CallRoundTrip

SpecPure == PureInit /\ [][PureNext]_vars

(***************************************************************************)
(* What the claims speak of, said without the program's own functions      *)
(***************************************************************************)
KeywordSet == {"suicide", "kill myself", "password", "credentials"}

UpperChar(c) ==
    IF \E i \in 1..26 : SubSeq(LowerLetters, i, i) = c
    THEN LET i == CHOOSE i \in 1..26 : SubSeq(LowerLetters, i, i) = c
         IN  SubSeq(UpperLetters, i, i)
    ELSE c

RECURSIVE StrUpper(_)
StrUpper(s) ==
    IF Len(s) = 0 THEN ""
    ELSE UpperChar(SubSeq(s, 1, 1)) \o StrUpper(SubSeq(s, 2, Len(s)))

\* Some stretch of the message's text is, letter case aside, a keyword.
HasKeyword(m) ==
    /\ m.content # None
    /\ \E i \in 1..Len(m.content) : \E j \in i..Len(m.content) :
          StrLower(SubSeq(m.content, i, j)) \in KeywordSet

\* The message with its text in capitals, and in small letters.
InCapitals(m) == IF m.content = None THEN m ELSE [m EXCEPT !.content = StrUpper(@)]
InSmall(m) == IF m.content = None THEN m ELSE [m EXCEPT !.content = StrLower(@)]

PureArgLast == Last(pin.state.messages)

\* C1: for a State whose last message is an assistant message,
\* route_model_output returns human_review when the content holds a sensitive
\* keyword (pending tool calls or not), else tools when the message has at
\* least one tool call, else __end__.
C1_RoutePriority ==
    (/\ pfn = "route_model_output"
     /\ Len(pin.state.messages) > 0
     /\ PureArgLast.role = "assistant")
    => /\ pret.raised = None
       /\ pret.value = IF HasKeyword(PureArgLast) THEN "human_review"
                       ELSE IF Len(PureArgLast.tool_calls) >= 1 THEN "tools"
                       ELSE "__end__"

\* C1's case: a sensitive assistant message with a pending tool call was routed.
C1_Witness ==
    /\ pfn = "route_model_output"
    /\ Len(pin.state.messages) > 0
    /\ PureArgLast.role = "assistant"
    /\ HasKeyword(PureArgLast)
    /\ PureArgLast.tool_calls # <<>>
    /\ pret.value = "human_review"

\* C3: call_model outputs exactly one assistant message: with the last-step
\* flag set and tool calls in the model's response it is the fallback text with
\* no tool calls under the response's id, which the router sends to __end__;
\* in every other case it is the response itself.
C3_CallModelOutput ==
    pfn = "call_model"
    => LET out == pret.value.messages
       IN  /\ Len(out) = 1
           /\ out[1].role = "assistant"
           /\ IF pin.state.is_last_step /\ Len(pin.response.tool_calls) > 0
              THEN /\ out[1].content = FallbackContent
                   /\ out[1].tool_calls = <<>>
                   /\ out[1].id = pin.response.id
                   /\ route_model_output(Merge(pin.state, pret.value)) = Return("__end__")
              ELSE out[1] = pin.response

\* C3's case: the flag was set, the response asked for a tool, and call_model
\* answered with the fallback message.
C3_Witness ==
    /\ pfn = "call_model"
    /\ pin.state.is_last_step
    /\ pin.response.tool_calls # <<>>
    /\ pret.value.messages[1].content = FallbackContent

\* C4: route_model_output raises ValueError, and returns no route, whenever the
\* last message is not an assistant message; raising or returning, it leaves
\* the State as it was.
C4_RouteFailsOnNonAssistant ==
    pfn = "route_model_output"
    => /\ pafter = pin.state
       /\ (Len(pin.state.messages) > 0 /\ PureArgLast.role # "assistant")
            => (pret.raised = "ValueError" /\ pret.value = None)

\* C4's case: the router was called on a State that ends with a tool message.
C4_Witness ==
    /\ pfn = "route_model_output"
    /\ Len(pin.state.messages) > 0
    /\ PureArgLast.role = "tool"
    /\ pret.raised = "ValueError"

\* C5: contains_sensitive_info(m) is true exactly when the lowercased content
\* holds one of the four keywords; the letter case of the content does not
\* change the result; empty and missing content are not sensitive.
C5_SensitiveIffKeyword ==
    pfn = "contains_sensitive_info"
    => /\ pret.value = HasKeyword(PureArgLast)
       /\ pret.value = contains_sensitive_info(InCapitals(PureArgLast))
       /\ pret.value = contains_sensitive_info(InSmall(PureArgLast))
       /\ (PureArgLast.content = None \/ PureArgLast.content = "") => ~pret.value

\* C5's case: a keyword written in capitals inside a longer text was found.
C5_Witness ==
    /\ pfn = "contains_sensitive_info"
    /\ PureArgLast.content = "my PASSWORDs!"
    /\ pret.value = TRUE

\* C9: deserialize_state(serialize_state(s)) equals s, field for field.
C9_RoundTrip ==
    pfn = "round_trip" => pret.value = pin.state

(***************************************************************************)
(* The runner's claims                                                     *)
(***************************************************************************)
\* The step budget N of C2.
StepBudget == 2

\* No message of the State is sensitive.
Benign(st) == \A i \in 1..Len(st.messages) : ~HasKeyword(st.messages[i])

\* C2: with a model that asks for a tool on every invocation and a step budget
\* of N, a run reaches the terminal state after at most N model invocations,
\* and the last message of the returned State is the fallback text.
C2_TerminatesWithinBudget ==
    \A s \in Sessions :
        (allTools[s] /\ Benign(state[s]) /\ Benign(result[s].state))
        => /\ modelCalls[s] <= StepBudget
           /\ (modelCalls[s] = StepBudget /\ pc[s] # "exec") => pc[s] \in {"final", "idle"}
           /\ (result[s].kind = "returned" /\ modelCalls[s] > 0)
                => Last(result[s].state.messages).content = FallbackContent

\* The keys of the store that a run of k+1 saves added last.
LastKeys(n) ==
    SubSeq(ListKeys(CHECKPOINTS), Len(CHECKPOINTS) - n + 1, Len(CHECKPOINTS))

\* C6: a run saves one checkpoint before every step and one more after the
\* terminal state: a run of k steps adds k+1 checkpoints, the snapshot saved
\* before step i is that of the State step i ran on, and the last checkpoint
\* added is that of the State the run returns.
C6_CheckpointPerStep ==
    \A s \in Sessions :
        /\ \A i \in 1..Len(execLog[s]) :
              /\ i <= Len(savedIds[s])
              /\ DictGet(CHECKPOINTS, savedIds[s][i]) = serialize_state(execLog[s][i])
        /\ pc[s] = "exec"
              => /\ Len(savedIds[s]) = Len(execLog[s]) + 1
                 /\ DictGet(CHECKPOINTS, Last(savedIds[s])) = serialize_state(state[s])
        /\ pc[s] \in {"save", "final"} => Len(savedIds[s]) = Len(execLog[s])
        /\ result[s].kind = "returned"
              => /\ Len(savedIds[s]) = Len(execLog[s]) + 1
                 /\ Len(savedIds[s]) <= Len(CHECKPOINTS)
                 /\ savedIds[s] = LastKeys(Len(execLog[s]) + 1)
                 /\ DictGet(CHECKPOINTS, Last(savedIds[s])) = serialize_state(result[s].state)

\* C6's case: a run of three steps (model, tools, model) has returned.
C6_Witness ==
    \E s \in Sessions :
        /\ result[s].kind = "returned"
        /\ Len(execLog[s]) = 3
        /\ Len(savedIds[s]) = 4

\* C7: a save adds exactly one entry, under "ckpt_<n>" with n the size of the
\* store before it, and no step of any run or resume changes or removes an
\* entry the store holds.
C7_SaveNeverOverwrites ==
    [][ /\ \A i \in 1..Len(CHECKPOINTS) :
              i <= Len(CHECKPOINTS') /\ CHECKPOINTS'[i] = CHECKPOINTS[i]
        /\ saveLog' # saveLog
              => /\ Len(CHECKPOINTS') = Len(CHECKPOINTS) + 1
                 /\ CHECKPOINTS'[Len(CHECKPOINTS')].key = "ckpt_" \o ToString(Len(CHECKPOINTS))
        /\ saveLog' = saveLog => CHECKPOINTS' = CHECKPOINTS ]_vars

\* C7's case: a later call has saved on top of an earlier call's checkpoints.
C7_Witness ==
    \E s \in Sessions :
        /\ savedIds[s] # <<>>
        /\ Len(saveLog) > Len(savedIds[s])
        /\ Len(CHECKPOINTS) = Len(saveLog)

\* C8: list_checkpoints returns the stored ids in the order they were saved,
\* as many as there were saves, and leaves the store alone.
C8_ListMatchesSaves ==
    /\ Len(listed) <= Len(saveLog)
    /\ listed = SubSeq(saveLog, 1, Len(listed))
    /\ [i \in 1..Len(CHECKPOINTS) |-> CHECKPOINTS[i].key] = saveLog

\* C8's case: the list was taken after a run and a resume, and is up to date.
C8_Witness ==
    /\ Len(listed) >= 4
    /\ listed = saveLog
    /\ \E s \in Sessions : savedIds[s] # <<>> /\ Len(savedIds[s]) < Len(saveLog)

\* C10: a resume from an id the store does not hold fails with ValueError: it
\* runs no step, saves no checkpoint and leaves the store as it was.
C10_UnknownResumeFails ==
    [][ \A s \in Sessions, id \in ResumeIds, m \in Modifications :
            (pc[s] = "idle" /\ ~DictHas(CHECKPOINTS, id) /\ RunResume(s, id, m))
            => /\ result'[s].kind = "ValueError"
               /\ pc'[s] = "idle"
               /\ CHECKPOINTS' = CHECKPOINTS
               /\ saveLog' = saveLog
               /\ savedIds'[s] = <<>>
               /\ execLog'[s] = <<>> ]_vars

\* C10's case: a resume from an unknown id has failed on a store that holds
\* checkpoints.
C10_Witness ==
    \E s \in Sessions :
        /\ result[s].kind = "ValueError"
        /\ pc[s] = "idle"
        /\ Len(CHECKPOINTS) > 0

(***************************************************************************)
(* Resumes, nodes and frames                                               *)
(***************************************************************************)
\* The State the current call of session s began its loop with.
RunStart(s) ==
    IF execLog[s] # <<>> THEN execLog[s][1]
    ELSE IF pc[s] = "idle" THEN result[s].state
    ELSE state[s]

\* The State as it was after step i of the current call of session s.
StateAfter(s, i) ==
    IF i < Len(execLog[s]) THEN execLog[s][i + 1]
    ELSE IF pc[s] = "idle" THEN result[s].state
    ELSE state[s]

\* The value of field k of a State, as setattr would be given it.
FieldOf(st, k) ==
    IF k = "messages" THEN PMessages(st.messages)
    ELSE IF k = "is_last_step" THEN PBool(st.is_last_step)
    ELSE st.extra[k]

FieldNames == {"messages", "is_last_step"} \cup ExtraKeys

ModKeys(mods) == {mods[i].key : i \in 1..Len(mods)}

\* Field k is the same in two snapshots: in both with one value, or in neither.
SameField(doc1, doc2, k) ==
    /\ (k \in DOMAIN doc1.v) = (k \in DOMAIN doc2.v)
    /\ k \in DOMAIN doc1.v => doc1.v[k] = doc2.v[k]

\* C11: a resume from checkpoint c with modifications M begins with c's
\* snapshot in which every key of M has M's value and every other field is as
\* the snapshot has it; the first checkpoint the resumed run saves holds that
\* State under the fresh id "ckpt_<size of the store>", and the snapshot under
\* c stays as it was.
C11_ResumeAppliesModifications ==
    \A s \in Sessions :
        request[s].kind = "resume"
        => LET st == RunStart(s)
               mods == request[s].mods
           IN  /\ \A i \in 1..Len(mods) : FieldOf(st, mods[i].key) = mods[i].value
               /\ \A k \in FieldNames \ ModKeys(mods) :
                      SameField(serialize_state(st), request[s].doc, k)
               /\ DictGet(CHECKPOINTS, request[s].id) = request[s].doc
               /\ savedIds[s] # <<>>
                    => /\ savedIds[s][1] = "ckpt_" \o ToString(request[s].size)
                       /\ savedIds[s][1] # request[s].id
                       /\ DictGet(CHECKPOINTS, savedIds[s][1]) = serialize_state(st)

\* C11's case: a run resumed from ckpt_0 with the budget flag set by the
\* modifications has saved its first checkpoint.
C11_Witness ==
    \E s \in Sessions :
        /\ request[s].kind = "resume"
        /\ request[s].id = "ckpt_0"
        /\ request[s].mods = << [key |-> "is_last_step", value |-> PBool(TRUE)] >>
        /\ Len(RunStart(s).messages) = 1
        /\ RunStart(s).is_last_step
        /\ savedIds[s] # <<>>

\* The node that ran as step i + 1 of the current call of session s, or the
\* node the call has moved to when step i is its latest.
NodeAfter(s, i) ==
    IF i < Len(nodeLog[s]) THEN nodeLog[s][i + 1] ELSE position[s]

\* The latest invocation of the router in the current call of session s.
LastRouted(s) == routerLog[s][Len(routerLog[s])]

\* C12: once human_review has executed in a run it is the run's last step: no
\* call_model or tools step follows, the run goes straight to the end, and the
\* last message of the State it returns is the assistant message the router
\* inspected and flagged, as it was.
C12_HumanReviewEndsRun ==
    \A s \in Sessions :
        \A i \in 1..Len(nodeLog[s]) :
            nodeLog[s][i] = "human_review"
            => /\ i = Len(nodeLog[s])
               /\ i > 1
               /\ nodeLog[s][i - 1] = "call_model"
               /\ position[s] \in {"__end__", "__start__"}
               /\ pc[s] \in {"final", "idle"}
               /\ LastRouted(s).out = Return("human_review")
               /\ IsAIMessage(LastRouted(s).last)
               /\ HasKeyword(LastRouted(s).last)
               /\ pc[s] = "final" => Last(state[s].messages) = LastRouted(s).last
               /\ pc[s] = "idle"
                    => /\ result[s].kind = "returned"
                       /\ Last(result[s].state.messages) = LastRouted(s).last

\* C12's case: a run whose model answer was flagged went through human_review
\* and returned.
C12_Witness ==
    \E s \in Sessions :
        /\ nodeLog[s] = <<"call_model", "human_review">>
        /\ result[s].kind = "returned"
        /\ LastRouted(s).last.tool_calls # <<>>
        /\ HasKeyword(Last(result[s].state.messages))

\* C13: every tools step appends one tool message for each tool call of the
\* message it was given last, keeps what the transcript held, and is followed
\* by call_model with no invocation of the router in between, whatever the
\* tool results say.
C13_ToolsAppendsAndReturnsToModel ==
    \A s \in Sessions :
        \A i \in 1..Len(nodeLog[s]) :
            nodeLog[s][i] = "tools"
            => LET before == execLog[s][i].messages
                   after == StateAfter(s, i).messages
                   k == Len(Last(before).tool_calls)
               IN  /\ IsAIMessage(Last(before))
                   /\ k > 0
                   /\ Len(after) = Len(before) + k
                   /\ SubSeq(after, 1, Len(before)) = before
                   /\ \A j \in 1..k : after[Len(before) + j].role = "tool"
                   /\ NodeAfter(s, i) = "call_model" \/ result[s].kind = "CollaboratorError"
                   /\ i < Len(nodeLog[s]) => nodeLog[s][i + 1] = "call_model"
                   /\ Len(routerLog[s])
                        = Cardinality({n \in 1..Len(nodeLog[s]) : nodeLog[s][n] = "call_model"})

\* C13's case: a tools step answered two tool calls, one of them with a text
\* that holds a keyword, and call_model ran next.
C13_Witness ==
    \E s \in Sessions :
        /\ Len(nodeLog[s]) >= 3
        /\ nodeLog[s][2] = "tools"
        /\ nodeLog[s][3] = "call_model"
        /\ Len(Last(execLog[s][2].messages).tool_calls) = 2
        /\ \E j \in 1..Len(execLog[s][3].messages) :
               /\ execLog[s][3].messages[j].role = "tool"
               /\ HasKeyword(execLog[s][3].messages[j])

\* C14: in the loop a step changes the State only by appending messages: the
\* budget flag and every extra field stay as they were and the transcript
\* before the step is a prefix of the transcript after it; the saves change
\* nothing of the State, and the State a call ends with is the one its last
\* loop action left.
C14_StepsOnlyAppend ==
    [][\A s \in Sessions :
          /\ pc[s] \in {"save", "exec"} /\ pc'[s] # "idle"
               => /\ state'[s].is_last_step = state[s].is_last_step
                  /\ state'[s].extra = state[s].extra
                  /\ Len(state'[s].messages) >= Len(state[s].messages)
                  /\ SubSeq(state'[s].messages, 1, Len(state[s].messages))
                       = state[s].messages
                  /\ pc[s] = "save" => state'[s] = state[s]
          /\ pc[s] \in {"save", "exec", "final"} /\ pc'[s] = "idle"
               => result'[s].state = state[s]]_vars

\* C14's case: a run resumed with the budget flag set and an extra field given
\* has executed a step that appended to the transcript.
C14_Witness ==
    \E s \in Sessions :
        /\ request[s].kind = "resume"
        /\ pc[s] = "final"
        /\ Len(execLog[s]) = 1
        /\ \/ state[s].is_last_step
           \/ state[s].extra # NoExtra
        /\ Len(state[s].messages) = Len(execLog[s][1].messages) + 1

\* State `later` can follow from State `earlier` by executed steps only if
\* it has the transcript of `earlier` as a prefix and its other fields.
Extends(earlier, later) ==
    /\ later.is_last_step = earlier.is_last_step
    /\ later.extra = earlier.extra
    /\ Len(later.messages) >= Len(earlier.messages)
    /\ SubSeq(later.messages, 1, Len(earlier.messages)) = earlier.messages

\* The State held under the n-th key of the store.
Snapshot(n) == deserialize_state(CHECKPOINTS[n].value)

\* The place of a key among the keys of the store.
KeyIndex(key) == CHOOSE n \in 1..Len(CHECKPOINTS) : CHECKPOINTS[n].key = key

\* C15 as stated: of any two checkpoints of the store, the one with the
\* smaller id holds a State from which the other's State follows by steps.
C15_IdOrderIsCausalOrder ==
    \A i, j \in 1..Len(CHECKPOINTS) :
        i < j => Extends(Snapshot(i), Snapshot(j))

\* C15, amended: the n-th save of the store is under "ckpt_<n-1>", so the
\* order of the ids is the order of the saves; and of two checkpoints saved
\* by one run, the one with the smaller id was saved first and holds a State
\* from which the other's State follows by the steps executed in between.
C15_IdOrderIsSaveOrderCausalInRun ==
    /\ \A n \in 1..Len(CHECKPOINTS) : CHECKPOINTS[n].key = "ckpt_" \o ToString(n - 1)
    /\ \A s \in Sessions :
          \A i, j \in 1..Len(savedIds[s]) :
              i < j => /\ KeyIndex(savedIds[s][i]) < KeyIndex(savedIds[s][j])
                       /\ Extends(Snapshot(KeyIndex(savedIds[s][i])),
                                  Snapshot(KeyIndex(savedIds[s][j])))
                       /\ Len(Snapshot(KeyIndex(savedIds[s][j])).messages)
                            > Len(Snapshot(KeyIndex(savedIds[s][i])).messages)
                          \/ (j = Len(savedIds[s]) /\ j = i + 1 /\ pc[s] = "idle")

\* C15's case: a run resumed from ckpt_0 after the store held a later State
\* has saved its own checkpoints, in causal order, after those of the first run.
C15_Witness ==
    \E s \in Sessions :
        /\ request[s].kind = "resume"
        /\ request[s].id = "ckpt_0"
        /\ request[s].size >= 2
        /\ Len(savedIds[s]) >= 2
        /\ ~ Extends(Snapshot(request[s].size), Snapshot(request[s].size + 1))

(***************************************************************************)
(* Failures, the router's precondition, sessions                           *)
(***************************************************************************)
\* C16: when the model or tool collaborator fails in a step the call ends
\* with that error: the call saved one checkpoint for each step it completed
\* and one before the failing step and none after, each of them still holds
\* the State it was taken of, the State the call stopped with is the one the
\* last checkpoint holds (the failing step merged nothing), and the store
\* holds nothing more than it did before the call but these checkpoints.
C16_FailurePropagates ==
    \A s \in Sessions :
        result[s].kind = "CollaboratorError"
        => /\ pc[s] = "idle"
           /\ position[s] = "__start__"
           /\ Len(nodeLog[s]) = Len(execLog[s])
           /\ Len(savedIds[s]) = Len(execLog[s]) + 1
           /\ \A i \in 1..Len(execLog[s]) :
                  DictGet(CHECKPOINTS, savedIds[s][i]) = serialize_state(execLog[s][i])
           /\ DictGet(CHECKPOINTS, Last(savedIds[s])) = serialize_state(result[s].state)
           /\ execLog[s] # <<>> => Extends(Last(execLog[s]), result[s].state)
           /\ Len(CHECKPOINTS) = request[s].size + Len(savedIds[s])
           /\ request[s].kind = "resume"
                => DictGet(CHECKPOINTS, request[s].id) = request[s].doc

\* C16's case: the model collaborator failed in the third step of a call,
\* after a call_model and a tools step.
C16_Witness ==
    \E s \in Sessions :
        /\ result[s].kind = "CollaboratorError"
        /\ nodeLog[s] = <<"call_model", "tools">>
        /\ Len(savedIds[s]) = 3

\* C17: in every call, fresh or resumed with any modifications, each
\* invocation of route_model_output found an assistant message last and
\* raised nothing; the only ValueError a call ends with is that of a
\* checkpoint not found, raised before the loop.
C17_RouterSeesAssistant ==
    \A s \in Sessions :
        /\ \A i \in 1..Len(routerLog[s]) :
               /\ IsAIMessage(routerLog[s][i].last)
               /\ routerLog[s][i].out.raised = None
        /\ result[s].kind = "ValueError"
             => /\ request[s].kind = "none"
                /\ routerLog[s] = <<>>

\* C17's case: a run resumed with a transcript that ends with a tool message
\* has invoked the router.
C17_Witness ==
    \E s \in Sessions :
        /\ request[s].kind = "resume"
        /\ "messages" \in ModKeys(request[s].mods)
        /\ ~ IsAIMessage(Last(RunStart(s).messages))
        /\ routerLog[s] # <<>>

\* C18: with two sessions taking turns on the one store, the store holds one
\* entry for every save ever made, in the order of the saves and under keys
\* that are all different, and every checkpoint a call saved still holds the
\* State that call saved under it.
C18_ConcurrentSavesDistinct ==
    /\ Len(CHECKPOINTS) = Len(saveLog)
    /\ \A n \in 1..Len(CHECKPOINTS) : CHECKPOINTS[n].key = saveLog[n]
    /\ \A m, n \in 1..Len(CHECKPOINTS) : m # n => CHECKPOINTS[m].key # CHECKPOINTS[n].key
    /\ \A s, t \in Sessions :
          s # t => \A i \in 1..Len(savedIds[s]), j \in 1..Len(savedIds[t]) :
                      savedIds[s][i] # savedIds[t][j]
    /\ \A s \in Sessions :
          \A i \in 1..Len(execLog[s]) :
              DictGet(CHECKPOINTS, savedIds[s][i]) = serialize_state(execLog[s][i])

\* C18's case: a second session saved a checkpoint between two saves of the
\* first one, while both calls were under way.
C18_Witness ==
    \E s, t \in Sessions :
        /\ s # t
        /\ Len(savedIds[s]) >= 2
        /\ Len(savedIds[t]) >= 1
        /\ pc[s] # "idle"
        /\ pc[t] # "idle"
        /\ KeyIndex(savedIds[s][1]) < KeyIndex(savedIds[t][1])
        /\ KeyIndex(savedIds[t][1]) < KeyIndex(savedIds[s][2])

\* The State of the snapshot a resumed call was asked to begin with is at the
\* end of the graph: its last message is an answer with no tool call and no
\* keyword.
ResumedFromTerminal(s) ==
    /\ request[s].kind = "resume"
    /\ LET st == deserialize_state(request[s].doc)
       IN  /\ st.messages # <<>>
           /\ route_model_output(st) = Return("__end__")

\* C19 as stated: every call that got past its initialization has, when it
\* is over, executed a step and saved two checkpoints or more.
C19_EveryCallTwoCheckpoints ==
    \A s \in Sessions :
        request[s].kind # "none" /\ pc[s] = "idle"
        => /\ Len(execLog[s]) >= 1
           /\ Len(savedIds[s]) >= 2

\* C19, amended: a call reaches the final save only after a step, so every
\* call that returns has executed one step or more, the first of them
\* call_model, and saved two checkpoints or more, also when it was resumed
\* from a State already at the end; a call that a collaborator's failure
\* ended has saved one checkpoint or more.
C19_ReturnedCallRanAStep ==
    \A s \in Sessions :
        /\ pc[s] = "final" \/ result[s].kind = "returned"
             => /\ Len(execLog[s]) >= 1
                /\ nodeLog[s][1] = "call_model"
                /\ modelCalls[s] >= 1
        /\ result[s].kind = "returned"
             => /\ Len(savedIds[s]) = Len(execLog[s]) + 1
                /\ Len(savedIds[s]) >= 2
        /\ result[s].kind = "CollaboratorError" => Len(savedIds[s]) >= 1

\* C19's case: a call resumed from the final checkpoint of a finished run,
\* with no modifications, has returned.
C19_Witness ==
    \E s \in Sessions :
        /\ ResumedFromTerminal(s)
        /\ request[s].mods = <<>>
        /\ result[s].kind = "returned"
        /\ Len(result[s].state.messages)
             = Len(deserialize_state(request[s].doc).messages) + 1

\* C20: a human_review step makes the transcript longer by one message, a
\* second copy of the flagged answer put after the first, and the State the
\* run returns ends with these two equal messages.
C20_ReviewAppendsDuplicate ==
    \A s \in Sessions :
        \A i \in 1..Len(nodeLog[s]) :
            nodeLog[s][i] = "human_review"
            => LET before == execLog[s][i].messages
                   after == StateAfter(s, i).messages
                   n == Len(after)
               IN  /\ n = Len(before) + 1
                   /\ SubSeq(after, 1, Len(before)) = before
                   /\ after[n] = after[n - 1]
                   /\ after[n] = LastRouted(s).last
                   /\ result[s].kind = "returned" => result[s].state.messages = after

\* C20's case: a fresh run whose first answer was flagged has returned a
\* transcript of three messages.
C20_Witness ==
    \E s \in Sessions :
        /\ request[s].kind = "fresh"
        /\ result[s].kind = "returned"
        /\ Last(nodeLog[s]) = "human_review"
        /\ Len(result[s].state.messages) = 3
        /\ result[s].state.messages[2] = result[s].state.messages[3]
        /\ HasKeyword(result[s].state.messages[3])

=============================================================================
